---- MODULE Spec2Model ----
(***************************************************************************)
(* A model of the completion poller of pdf_craft_sdk.client.PDFCraftClient *)
(* (wait_for_completion and the status query it drives), of convert, of    *)
(* two threads polling one task, and of the chunked uploader (upload_file  *)
(* with UploadProgress).  Times are exact                                  *)
(* rationals in seconds, written <<numerator, denominator>> in lowest      *)
(* terms, so that check_interval_ms / 1000.0 and interval * factor are     *)
(* computed as the code computes them, without rounding.                   *)
(***************************************************************************)
EXTENDS Integers, Sequences, FiniteSets, TLC

(* ------------------------------ bounds -------------------------------- *)

\* The largest number of status queries one modelled call may issue.
MaxPolls == 5

\* The largest file, in bytes, a modelled upload may transfer.
MaxBytes == 7

(* ---------------------------- rationals ------------------------------- *)

RECURSIVE GCD(_, _)
GCD(a, b) == IF b = 0 THEN a ELSE GCD(b, a % b)

Abs(n) == IF n < 0 THEN -n ELSE n

\* n/d in lowest terms, d > 0.
Rat(n, d) ==
    LET g == GCD(Abs(n), Abs(d))
        s == IF d < 0 THEN -1 ELSE 1
    IN  <<(s * n) \div g, (s * d) \div g>>

RAdd(x, y) == Rat(x[1] * y[2] + y[1] * x[2], x[2] * y[2])
RSub(x, y) == Rat(x[1] * y[2] - y[1] * x[2], x[2] * y[2])
RMul(x, y) == Rat(x[1] * y[1], x[2] * y[2])
RLt(x, y)  == x[1] * y[2] < y[1] * x[2]
RLeq(x, y) == x[1] * y[2] <= y[1] * x[2]
\* Python's min(a, b): b only when b < a.
RMin(x, y) == IF RLt(y, x) THEN y ELSE x

(* -------------------------- program constants -------------------------- *)

\* The defaults of wait_for_completion's keyword arguments.
DefaultMaxWaitMs == 7200000
DefaultCheckIntervalMs == 1000
DefaultMaxCheckIntervalMs == 5000

\* enums.PollingStrategy: the numeric multiplier of each member.
PollingStrategyMembers == {"EXPONENTIAL", "FIXED", "AGGRESSIVE"}
PollingStrategyValue(name) ==
    CASE name = "FIXED"       -> Rat(1, 1)
      [] name = "EXPONENTIAL" -> Rat(3, 2)
      [] name = "AGGRESSIVE"  -> Rat(2, 1)

(* ------------------------------- inputs -------------------------------- *)

\* backoff_factor is a PollingStrategy member or a plain number.
Strategy(name) == [isEnum |-> TRUE, name |-> name, val |-> Rat(0, 1)]
Number(n, d)   == [isEnum |-> FALSE, name |-> "float", val |-> Rat(n, d)]

MaxWaitMsValues == {0, 4000, DefaultMaxWaitMs}
CheckIntervalMsValues == {DefaultCheckIntervalMs, 3000, 6000}
MaxCheckIntervalMsValues == {3000, DefaultMaxCheckIntervalMs}

\* The task ids a caller hands to wait_for_completion.
TaskIds == {"task123"}
BackoffFactorValues ==
    {Strategy("EXPONENTIAL"), Strategy("FIXED"),
     Number(1, 2), Number(1, 1), Number(2, 1)}

CallArgs ==
    [task_id : TaskIds,
     max_wait_ms : MaxWaitMsValues,
     check_interval_ms : CheckIntervalMsValues,
     max_check_interval_ms : MaxCheckIntervalMsValues,
     backoff_factor : BackoffFactorValues]

\* The polling arguments convert is called with; convert hands them on
\* unchanged, with the task id it got from the submission.
\* client.py 40: the format types the service converts to, and one it
\* does not.
FormatTypeValues == {"markdown", "epub"}
FormatTypes == {"markdown", "docx"}

ConvertArgs ==
    [task_id : {""},
     format_type : FormatTypes,
     max_wait_ms : {4000, DefaultMaxWaitMs},
     check_interval_ms : {DefaultCheckIntervalMs},
     max_check_interval_ms : {DefaultMaxCheckIntervalMs},
     backoff_factor : {Strategy("EXPONENTIAL"), Strategy("FIXED")}]

\* How long one status request takes, in seconds.
Latencies == {Rat(0, 1), Rat(1, 1)}

(* ----------------------- the status endpoint --------------------------- *)

\* An HTTP response of GET .../result/{task_id}: whether the body parses as
\* JSON, response.ok, and the parsed body.  A dict is a set of <<key, value>>.
Response(json, ok, state, hasData, data, hasError, error) ==
    [json |-> json, ok |-> ok, hasState |-> state # "",
     state |-> state, hasData |-> hasData, data |-> data,
     hasError |-> hasError, error |-> error]

Body(state, hasData, data, hasError, error) ==
    Response(TRUE, TRUE, state, hasData, data, hasError, error)

Urls == {"http://example.com/a.md", "http://example.com/b.md"}
Reasons == {"ocr failed", "bad pdf"}

Responses ==
    {Body("processing", FALSE, {}, FALSE, ""),
     Body("queued", FALSE, {}, FALSE, ""),
     Body("completed", FALSE, {}, FALSE, ""),
     Body("completed", TRUE, {}, FALSE, ""),
     Body("completed", TRUE, {<<"pages", "3">>}, FALSE, ""),
     Body("failed", FALSE, {}, FALSE, ""),
     Response(FALSE, TRUE, "", FALSE, {}, FALSE, ""),
     Response(TRUE, FALSE, "processing", FALSE, {}, FALSE, ""),
     Response(TRUE, FALSE, "completed", TRUE,
              {<<"downloadURL", "http://example.com/a.md">>}, FALSE, "")}
        \cup {Body("completed", TRUE, {<<"downloadURL", u>>}, FALSE, "") :
                u \in Urls}
        \cup {Body("failed", FALSE, {}, TRUE, r) : r \in Reasons}

\* An HTTP response of POST .../submit.
SubmitResponse(json, ok, success, sessionID, hasError, error) ==
    [json |-> json, ok |-> ok, success |-> success, sessionID |-> sessionID,
     hasError |-> hasError, error |-> error]

SessionIds == {"session-1"}

SubmitResponses ==
    {SubmitResponse(TRUE, TRUE, TRUE, id, FALSE, "") : id \in SessionIds}
        \cup {SubmitResponse(FALSE, TRUE, FALSE, "", FALSE, ""),
              SubmitResponse(TRUE, FALSE, TRUE, "session-1", FALSE, ""),
              SubmitResponse(TRUE, TRUE, FALSE, "", FALSE, ""),
              SubmitResponse(TRUE, TRUE, FALSE, "", TRUE, "quota exceeded")}

\* dict.get(key) on a dict that holds the key.
Lookup(dict, key) == (CHOOSE p \in dict : p[1] = key)[2]
HasKey(dict, key) == \E p \in dict : p[1] = key

(* ------------------------------ outcomes ------------------------------- *)

NoOutcome == [kind |-> "none", value |-> "", detail |-> ""]
Returned(v) == [kind |-> "return", value |-> v, detail |-> ""]
APIError(msg, detail) == [kind |-> "APIError", value |-> msg, detail |-> detail]
TimeoutError(msg) == [kind |-> "TimeoutError", value |-> msg, detail |-> ""]
ValueError(msg) == [kind |-> "ValueError", value |-> msg, detail |-> ""]

(* ------------------------------- state --------------------------------- *)

VARIABLES
    pc,                    \* where the call stands: idle, while, sleep, done
    entry,                 \* the method the caller invoked
    wait,                  \* convert's wait argument
    args,                  \* the polling arguments of the call
    task_id,               \* the task wait_for_completion polls
    submissions,           \* the number of POST .../submit requests issued
    now,                   \* time.time()
    start_time,
    timeout_sec,
    factor,
    current_interval_sec,
    max_interval_sec,
    result,                \* the last status response handled
    polled,                \* the status responses received, in order
    sleeps,                \* the durations passed to time.sleep, in order
    outcome                \* what the call returned or raised

\* The state of an upload_file call.
VARIABLES
    upc,                   \* where upload_file stands
    file_path,             \* the path upload_file was called with
    session,               \* the UploadSession of the call
    progress_callback,     \* the progress callback the caller supplied, if any
    requests,              \* the Transport requests upload_file issued, in order
    inflight,              \* the parts whose transfer awaits its response
    observed,              \* the UploadProgress snapshots the callback was given
    upload_outcome,        \* what upload_file returned or raised
    progress               \* the snapshot a caller built and its percentage

\* The state of the threads that poll one task through one client.
VARIABLES
    client,                \* the PDFCraftClient the threads share
    pollers                \* each thread's wait_for_completion frame

uploader == <<upc, file_path, session, progress_callback, requests, inflight, observed,
              upload_outcome, progress>>

threads == <<client, pollers>>

\* The caller's own call, apart from the clock.
single == <<pc, entry, wait, args, task_id, submissions, start_time,
            timeout_sec, factor, current_interval_sec, max_interval_sec,
            result, polled, sleeps, outcome>>

polling == <<single, now>>

vars == <<pc, entry, wait, args, task_id, submissions, now, start_time, timeout_sec, factor,
          current_interval_sec, max_interval_sec, result, polled, sleeps,
          outcome, uploader, threads>>

call == <<entry, wait, args, task_id, submissions>>

locals == <<start_time, timeout_sec, factor, current_interval_sec,
            max_interval_sec>>

(* --------------------------- pure functions ---------------------------- *)

\* x / 1000.0
MsToSec(ms) == Rat(ms, 1000)

\* client.py 126-129: the multiplier a backoff_factor argument stands for.
ResolveFactor(backoff_factor) ==
    IF backoff_factor.isEnum
    THEN PollingStrategyValue(backoff_factor.name)
    ELSE backoff_factor.val

\* The interval grown without the clamp at the maximum.
NextIntervalUnclamped(interval, f, max_interval) == RMul(interval, f)

\* client.py 151
NextInterval(interval, f, max_interval) ==
    RMin(RMul(interval, f), max_interval)

\* The loop condition replaced by True.
WithinDeadlineAlways(t, start, timeout) == TRUE

\* The loop condition written with <= in place of <.
WithinDeadlineInclusive(t, start, timeout) == RLeq(RSub(t, start), timeout)

\* client.py 134: time.time() - start_time < timeout_sec
WithinDeadline(t, start, timeout) == RLt(RSub(t, start), timeout)

\* client.py 22-27: the format type as a string, or the ValueError raised
\* for a string that names no format type.
EnsureFormatType(format_type) ==
    IF format_type \in FormatTypeValues
    THEN Returned(format_type)
    ELSE ValueError("format_type must be one of")

\* client.py 61-74: the sessionID, or the APIError the submission raises.
SubmitConversion(resp) ==
    IF ~resp.json
    THEN APIError("Invalid JSON response", "")
    ELSE IF ~resp.ok
    THEN APIError("HTTP", "")
    ELSE IF resp.success
    THEN Returned(resp.sessionID)
    ELSE APIError("Failed to submit task",
                  IF resp.hasError THEN resp.error ELSE "Unknown error")

\* The status query without the check of response.ok.
GetConversionResultNoStatusCheck(resp) ==
    IF ~resp.json
    THEN [raised |-> TRUE, error |-> APIError("Invalid JSON response", "")]
    ELSE [raised |-> FALSE, error |-> NoOutcome]

\* client.py 89-99: the parsed body, or the APIError the query raises.
GetConversionResult(resp) ==
    IF ~resp.json
    THEN [raised |-> TRUE, error |-> APIError("Invalid JSON response", "")]
    ELSE IF ~resp.ok
    THEN [raised |-> TRUE, error |-> APIError("HTTP", "")]
    ELSE [raised |-> FALSE, error |-> NoOutcome]

\* HandleResult without the 'failed' branch.
HandleResultFailedIgnored(res) ==
    IF res.hasState /\ res.state = "completed"
    THEN IF res.hasData /\ res.data # {} /\ HasKey(res.data, "downloadURL")
         THEN Returned(Lookup(res.data, "downloadURL"))
         ELSE APIError("Task completed but downloadURL missing in response",
                       "")
    ELSE NoOutcome

\* HandleResult reading downloadURL from the top of the body, where the
\* key is absent, instead of from data.
HandleResultTopLevelUrl(res) ==
    IF res.hasState /\ res.state = "completed"
    THEN IF res.hasData /\ res.data # {} /\ HasKey(res.data, "downloadURL")
         THEN Returned("None")
         ELSE APIError("Task completed but downloadURL missing in response",
                       "")
    ELSE IF res.hasState /\ res.state = "failed"
    THEN APIError("Conversion failed",
                  IF res.hasError THEN res.error ELSE "Unknown error")
    ELSE NoOutcome

\* HandleResult going on to the sleep when the payload is missing.
HandleResultMissingPayloadPolls(res) ==
    IF res.hasState /\ res.state = "completed"
    THEN IF res.hasData /\ res.data # {} /\ HasKey(res.data, "downloadURL")
         THEN Returned(Lookup(res.data, "downloadURL"))
         ELSE NoOutcome
    ELSE IF res.hasState /\ res.state = "failed"
    THEN APIError("Conversion failed",
                  IF res.hasError THEN res.error ELSE "Unknown error")
    ELSE NoOutcome

\* HandleResult raising on every state other than 'processing'.
HandleResultStrict(res) ==
    IF res.hasState /\ res.state = "completed"
    THEN IF res.hasData /\ res.data # {} /\ HasKey(res.data, "downloadURL")
         THEN Returned(Lookup(res.data, "downloadURL"))
         ELSE APIError("Task completed but downloadURL missing in response",
                       "")
    ELSE IF res.hasState /\ res.state = "failed"
    THEN APIError("Conversion failed",
                  IF res.hasError THEN res.error ELSE "Unknown error")
    ELSE IF res.hasState /\ res.state = "processing"
    THEN NoOutcome
    ELSE APIError("Unknown state", res.state)

\* HandleResult dropping the reason the service reports.
HandleResultNoReason(res) ==
    IF res.hasState /\ res.state = "completed"
    THEN IF res.hasData /\ res.data # {} /\ HasKey(res.data, "downloadURL")
         THEN Returned(Lookup(res.data, "downloadURL"))
         ELSE APIError("Task completed but downloadURL missing in response",
                       "")
    ELSE IF res.hasState /\ res.state = "failed"
    THEN APIError("Conversion failed", "Unknown error")
    ELSE NoOutcome

\* client.py 137-146: what one parsed status does to the loop:
\* an outcome that ends the call, or NoOutcome to go on to the sleep.
HandleResult(res) ==
    IF res.hasState /\ res.state = "completed"
    THEN IF res.hasData /\ res.data # {} /\ HasKey(res.data, "downloadURL")
         THEN Returned(Lookup(res.data, "downloadURL"))
         ELSE APIError("Task completed but downloadURL missing in response",
                       "")
    ELSE IF res.hasState /\ res.state = "failed"
    THEN APIError("Conversion failed",
                  IF res.hasError THEN res.error ELSE "Unknown error")
    ELSE NoOutcome

(* ---------------------------- the uploader ----------------------------- *)

\* The paths a caller hands to upload_file, and the files that exist.
Paths == {"document.pdf", "nonexistent_file.pdf"}
ExistingPaths == {"document.pdf"}
FileSizes == 0..MaxBytes

\* The part sizes the upload service may declare.
PartSizes == {2, 3}

\* ceil(n / d) for d > 0.
Ceil(n, d) == (n + d - 1) \div d

\* The answer of the upload-session request for a file of totalBytes bytes:
\* the service declares the part size and the part count,
\* totalParts = ceil(totalBytes / partSize); for an empty file it declares
\* zero parts or a single empty part.
InitResponse(ok, partSize, totalParts) ==
    [ok |-> ok, partSize |-> partSize, totalParts |-> totalParts]

InitResponses(totalBytes) ==
    {InitResponse(TRUE, ps, Ceil(totalBytes, ps)) : ps \in PartSizes}
        \cup {InitResponse(TRUE, ps, 1) : ps \in {q \in PartSizes : totalBytes = 0}}
        \cup {InitResponse(FALSE, 0, 0)}

AllInitResponses == UNION {InitResponses(n) : n \in FileSizes}

\* UploadSession: the state of one upload.
UploadSession(filePath, totalBytes) ==
    [filePath |-> filePath, totalBytes |-> totalBytes, partSize |-> 0,
     totalParts |-> 0, uploadedBytes |-> 0, currentPart |-> 0,
     acked |-> << >>]

NoSession == UploadSession("", 0)

\* UploadProgress: the snapshot handed to the progress callback.
UploadProgress(uploaded_bytes, total_bytes, current_part, total_parts) ==
    [uploaded_bytes |-> uploaded_bytes, total_bytes |-> total_bytes,
     current_part |-> current_part, total_parts |-> total_parts]

\* UploadProgress.percentage without the guard for an empty file: an empty
\* file counts as fully uploaded.
PercentageEmptyIsFull(p) ==
    IF p.total_bytes = 0
    THEN Rat(100, 1)
    ELSE LET q == Rat(100 * p.uploaded_bytes, p.total_bytes) IN
         IF RLt(q, Rat(0, 1)) THEN Rat(0, 1) ELSE RMin(q, Rat(100, 1))

\* UploadProgress.percentage dividing in whole numbers.
PercentageFloorDiv(p) ==
    IF p.total_bytes = 0
    THEN Rat(0, 1)
    ELSE Rat(100 * (p.uploaded_bytes \div p.total_bytes), 1)

\* UploadProgress.percentage: 100 * uploadedBytes / totalBytes, clamped to
\* [0, 100]; 0 when totalBytes = 0.
Percentage(p) ==
    IF p.total_bytes = 0
    THEN Rat(0, 1)
    ELSE LET q == Rat(100 * p.uploaded_bytes, p.total_bytes) IN
         IF RLt(q, Rat(0, 1)) THEN Rat(0, 1) ELSE RMin(q, Rat(100, 1))

\* The snapshot derived from the session after a part was acknowledged.
Snapshot(s) ==
    UploadProgress(s.uploadedBytes, s.totalBytes, s.currentPart, s.totalParts)

\* The length of a part taken to be the declared part size.
PartLengthFull(s, index) == s.partSize

\* The number of bytes in part index: its byte range
\* [(index - 1) * partSize, index * partSize) cut at the end of the file.
PartLength(s, index) ==
    LET first == (index - 1) * s.partSize
        last  == IF index * s.partSize < s.totalBytes
                 THEN index * s.partSize ELSE s.totalBytes
    IN  IF last < first THEN 0 ELSE last - first

\* The cache locator of an uploaded file.
CacheLocator(filePath) ==
    CASE filePath = "document.pdf" -> "remote-cache/document.pdf"
      [] OTHER -> "remote-cache/"

\* A Transport request of the uploader.
Request(op, part) == [op |-> op, part |-> part]

FileNotFoundError(path) ==
    [kind |-> "FileNotFoundError", value |-> path, detail |-> "", part |-> 0]
UploadError(msg, part) ==
    [kind |-> "APIError", value |-> msg, detail |-> "", part |-> part]
CallbackError ==
    [kind |-> "CallbackException", value |-> "callback raised", detail |-> "",
     part |-> 0]
Uploaded(locator) ==
    [kind |-> "return", value |-> locator, detail |-> "", part |-> 0]
NoUploadOutcome == [kind |-> "none", value |-> "", detail |-> "", part |-> 0]

\* The progress_callback argument: None, or a callable; a callable returns
\* on every invocation (raisesAt = 0) or raises on its raisesAt-th.
Callback(supplied, raisesAt) == [supplied |-> supplied, raisesAt |-> raisesAt]
Callbacks == {Callback(FALSE, 0)} \cup {Callback(TRUE, k) : k \in 0..2}

\* The snapshots a caller may construct by hand.
ProgressBytes == {0, 1, 5000, 9999, 10000}
NoProgress == [snapshot |-> UploadProgress(0, 0, 0, 0), percentage |-> Rat(0, 1)]

UploadInit ==
    /\ upc = "idle"
    /\ file_path = ""
    /\ session = NoSession
    /\ progress_callback = Callback(FALSE, 0)
    /\ requests = << >>
    /\ inflight = {}
    /\ observed = << >>
    /\ upload_outcome = NoUploadOutcome
    /\ progress = NoProgress

(* ------------------------- concurrent pollers -------------------------- *)

\* The threads of the caller that poll through one client.
Pollers == {1, 2}

\* client.py 19: f"Bearer {api_key}"
Bearer(api_key) ==
    CASE api_key = "test_key" -> "Bearer test_key"
      [] OTHER -> "Bearer"

\* client.py 12-20: the client as __init__ leaves it.
NewClient(api_key) ==
    [api_key |-> api_key,
     base_url |-> "https://fusion-api.oomol.com/v1",
     batch_base_url |-> "https://pdf-server.oomol.com/api/v1/conversion",
     headers |-> {<<"Content-Type", "application/json">>,
                  <<"Authorization", Bearer(api_key)>>}]

\* The polling arguments of the threads: one task, a deadline of four
\* seconds, the default intervals, two growth factors.
ThreadArgs ==
    {a \in CallArgs : /\ a.max_wait_ms = 4000
                      /\ a.check_interval_ms = DefaultCheckIntervalMs
                      /\ a.max_check_interval_ms = DefaultMaxCheckIntervalMs
                      /\ a.backoff_factor \in {Strategy("EXPONENTIAL"),
                                               Number(2, 1)}}

\* The statuses the service reports to the threads.
ThreadResponses ==
    {Body("processing", FALSE, {}, FALSE, ""),
     Body("completed", TRUE, {<<"downloadURL", "http://example.com/a.md">>},
          FALSE, ""),
     Body("failed", FALSE, {}, TRUE, "bad pdf")}

\* The frame of a wait_for_completion call: its arguments and locals.
NoFrame ==
    [pc |-> "idle", task_id |-> "",
     args |-> [task_id |-> "",
               max_wait_ms |-> DefaultMaxWaitMs,
               check_interval_ms |-> DefaultCheckIntervalMs,
               max_check_interval_ms |-> DefaultMaxCheckIntervalMs,
               backoff_factor |-> Strategy("EXPONENTIAL")],
     start_time |-> Rat(0, 1), timeout_sec |-> Rat(0, 1),
     factor |-> Rat(1, 1), current_interval_sec |-> Rat(0, 1),
     max_interval_sec |-> Rat(0, 1), wake |-> Rat(0, 1),
     polled |-> << >>, sleeps |-> << >>, outcome |-> NoOutcome]

ThreadsInit ==
    /\ client = NewClient("test_key")
    /\ pollers = [i \in Pollers |-> NoFrame]

(* ------------------------------- actions ------------------------------- *)

NoResponse == Response(FALSE, FALSE, "", FALSE, {}, FALSE, "")

Init ==
    /\ pc = "idle"
    /\ entry = "none"
    /\ wait = TRUE
    /\ task_id = ""
    /\ submissions = 0
    /\ args = [task_id |-> "",
               max_wait_ms |-> DefaultMaxWaitMs,
               check_interval_ms |-> DefaultCheckIntervalMs,
               max_check_interval_ms |-> DefaultMaxCheckIntervalMs,
               backoff_factor |-> Strategy("EXPONENTIAL")]
    /\ now = Rat(0, 1)
    /\ start_time = Rat(0, 1)
    /\ timeout_sec = Rat(0, 1)
    /\ factor = Rat(1, 1)
    /\ current_interval_sec = Rat(0, 1)
    /\ max_interval_sec = Rat(0, 1)
    /\ result = NoResponse
    /\ polled = << >>
    /\ sleeps = << >>
    /\ outcome = NoOutcome
    /\ UploadInit
    /\ ThreadsInit

\* client.py 122-132: wait_for_completion sets up its locals.
EnterWait(a, id) ==
    /\ args' = a
    /\ task_id' = id
    /\ start_time' = now
    /\ timeout_sec' = MsToSec(a.max_wait_ms)
    /\ factor' = ResolveFactor(a.backoff_factor)
    /\ current_interval_sec' = MsToSec(a.check_interval_ms)
    /\ max_interval_sec' = MsToSec(a.max_check_interval_ms)
    /\ pc' = "while"
    /\ UNCHANGED <<now, result, polled, sleeps, outcome>>

\* client.py 101-132: the caller invokes wait_for_completion on a task id.
WaitForCompletion(a) ==
    /\ pc = "idle"
    /\ UNCHANGED <<uploader, threads>>
    /\ entry' = "wait_for_completion"
    /\ UNCHANGED <<wait, submissions>>
    /\ EnterWait(a, a.task_id)

\* convert going on to wait_for_completion whatever its wait argument says.
ConvertAlwaysWaits(a, w, resp) ==
    /\ pc = "idle"
    /\ UNCHANGED <<uploader, threads>>
    /\ entry' = "convert"
    /\ wait' = w
    /\ IF EnsureFormatType(a.format_type).kind # "return"
       THEN /\ outcome' = EnsureFormatType(a.format_type)
            /\ pc' = "done"
            /\ args' = a
            /\ UNCHANGED <<submissions, task_id, now, locals, result, polled,
                           sleeps>>
       ELSE /\ submissions' = submissions + 1
            /\ LET sub == SubmitConversion(resp) IN
               IF sub.kind # "return"
               THEN /\ outcome' = sub
                    /\ pc' = "done"
                    /\ args' = a
                    /\ UNCHANGED <<task_id, now, locals, result, polled,
                                   sleeps>>
               ELSE EnterWait(a, sub.value)

\* convert going on to poll after a submission that failed.
ConvertIgnoresSubmitError(a, w, resp) ==
    /\ pc = "idle"
    /\ UNCHANGED <<uploader, threads>>
    /\ entry' = "convert"
    /\ wait' = w
    /\ IF EnsureFormatType(a.format_type).kind # "return"
       THEN /\ outcome' = EnsureFormatType(a.format_type)
            /\ pc' = "done"
            /\ args' = a
            /\ UNCHANGED <<submissions, task_id, now, locals, result, polled,
                           sleeps>>
       ELSE /\ submissions' = submissions + 1
            /\ LET sub == SubmitConversion(resp) IN
               IF sub.kind # "return"
               THEN EnterWait(a, "")
               ELSE IF w
               THEN EnterWait(a, sub.value)
               ELSE /\ outcome' = Returned(sub.value)
                    /\ pc' = "done"
                    /\ args' = a
                    /\ task_id' = sub.value
                    /\ UNCHANGED <<now, locals, result, polled, sleeps>>

\* client.py 155-192 with 29-74: convert submits the job, then returns the
\* task id or goes on to wait_for_completion on it.
Convert(a, w, resp) ==
    /\ pc = "idle"
    /\ UNCHANGED <<uploader, threads>>
    /\ entry' = "convert"
    /\ wait' = w
    /\ IF EnsureFormatType(a.format_type).kind # "return"
       THEN /\ outcome' = EnsureFormatType(a.format_type)
            /\ pc' = "done"
            /\ args' = a
            /\ UNCHANGED <<submissions, task_id, now, locals, result, polled,
                           sleeps>>
       ELSE /\ submissions' = submissions + 1
            /\ LET sub == SubmitConversion(resp) IN
               IF sub.kind # "return"
               THEN /\ outcome' = sub
                    /\ pc' = "done"
                    /\ args' = a
                    /\ UNCHANGED <<task_id, now, locals, result, polled,
                                   sleeps>>
               ELSE IF w
               THEN EnterWait(a, sub.value)
               ELSE /\ outcome' = Returned(sub.value)
                    /\ pc' = "done"
                    /\ args' = a
                    /\ task_id' = sub.value
                    /\ UNCHANGED <<now, locals, result, polled, sleeps>>

\* client.py 134, 153: the loop condition fails and the call times out.
RaiseTimeout ==
    /\ pc = "while"
    /\ UNCHANGED <<uploader, threads>>
    /\ ~WithinDeadline(now, start_time, timeout_sec)
    /\ outcome' = TimeoutError("Conversion timeout")
    /\ pc' = "done"
    /\ UNCHANGED <<call, now, locals, result, polled, sleeps>>

\* Poll measuring the deadline from the last status that kept the loop going.
PollRestartsClock(resp, latency) ==
    /\ pc = "while"
    /\ UNCHANGED <<uploader, threads>>
    /\ WithinDeadline(now, start_time, timeout_sec)
    /\ Len(polled) < MaxPolls
    /\ now' = RAdd(now, latency)
    /\ polled' = Append(polled, resp)
    /\ LET got == GetConversionResult(resp) IN
       IF got.raised
       THEN /\ outcome' = got.error
            /\ pc' = "done"
            /\ UNCHANGED <<result, start_time>>
       ELSE /\ result' = resp
            /\ outcome' = HandleResult(resp)
            /\ pc' = IF HandleResult(resp) = NoOutcome THEN "sleep" ELSE "done"
            /\ start_time' =
                   IF HandleResult(resp) = NoOutcome THEN now' ELSE start_time
    /\ UNCHANGED <<call, timeout_sec, factor, current_interval_sec,
                   max_interval_sec, sleeps>>

\* client.py 134-146: one iteration up to the sleep: the status query and
\* the branch on its state.
Poll(resp, latency) ==
    /\ pc = "while"
    /\ UNCHANGED <<uploader, threads>>
    /\ WithinDeadline(now, start_time, timeout_sec)
    /\ Len(polled) < MaxPolls
    /\ now' = RAdd(now, latency)
    /\ polled' = Append(polled, resp)
    /\ LET got == GetConversionResult(resp) IN
       IF got.raised
       THEN /\ outcome' = got.error
            /\ pc' = "done"
            /\ UNCHANGED result
       ELSE /\ result' = resp
            /\ outcome' = HandleResult(resp)
            /\ pc' = IF HandleResult(resp) = NoOutcome THEN "sleep" ELSE "done"
    /\ UNCHANGED <<call, locals, sleeps>>

\* The loop's tail with the interval grown before the suspension.
SleepAfterGrowth ==
    /\ pc = "sleep"
    /\ UNCHANGED <<uploader, threads>>
    /\ current_interval_sec' =
           NextInterval(current_interval_sec, factor, max_interval_sec)
    /\ sleeps' = Append(sleeps, current_interval_sec')
    /\ now' = RAdd(now, current_interval_sec')
    /\ pc' = "while"
    /\ UNCHANGED <<call, start_time, timeout_sec, factor, max_interval_sec,
                   result, polled, outcome>>

\* The loop's tail suspending twice.
SleepTwice ==
    /\ pc = "sleep"
    /\ UNCHANGED <<uploader, threads>>
    /\ sleeps' = sleeps \o <<current_interval_sec, current_interval_sec>>
    /\ now' = RAdd(RAdd(now, current_interval_sec), current_interval_sec)
    /\ current_interval_sec' =
           NextInterval(current_interval_sec, factor, max_interval_sec)
    /\ pc' = "while"
    /\ UNCHANGED <<call, start_time, timeout_sec, factor, max_interval_sec,
                   result, polled, outcome>>

\* client.py 148-151: suspend for the current interval, then grow it.
Sleep ==
    /\ pc = "sleep"
    /\ UNCHANGED <<uploader, threads>>
    /\ sleeps' = Append(sleeps, current_interval_sec)
    /\ now' = RAdd(now, current_interval_sec)
    /\ current_interval_sec' =
           NextInterval(current_interval_sec, factor, max_interval_sec)
    /\ pc' = "while"
    /\ UNCHANGED <<call, start_time, timeout_sec, factor, max_interval_sec,
                   result, polled, outcome>>

Next ==
    \/ \E a \in CallArgs : WaitForCompletion(a)
    \/ \E a \in ConvertArgs, w \in BOOLEAN, resp \in SubmitResponses :
          Convert(a, w, resp)
    \/ RaiseTimeout
    \/ \E resp \in Responses, latency \in Latencies : Poll(resp, latency)
    \/ Sleep

Spec == Init /\ [][Next]_vars

(* A second specification for termination.  The thread of the call keeps
   running, so each step of the loop is taken once it stays enabled (weak
   fairness); the caller is under no obligation to call.  Every status
   query takes time, and the calls have a deadline short enough to be
   reached within MaxPolls queries, so that the end of a run is the
   code's and not the bound's. *)
LiveLatencies == {l \in Latencies : RLt(Rat(0, 1), l)}
LiveCallArgs == {a \in CallArgs : a.max_wait_ms < DefaultMaxWaitMs}
LiveConvertArgs == {a \in ConvertArgs : a.max_wait_ms < DefaultMaxWaitMs}

LivePoll == \E resp \in Responses, latency \in LiveLatencies : Poll(resp, latency)

LiveNext ==
    \/ \E a \in LiveCallArgs : WaitForCompletion(a)
    \/ \E a \in LiveConvertArgs, w \in BOOLEAN, resp \in SubmitResponses :
          Convert(a, w, resp)
    \/ RaiseTimeout
    \/ LivePoll
    \/ Sleep

LiveSpec ==
    /\ Init
    /\ [][LiveNext]_vars
    /\ WF_vars(RaiseTimeout)
    /\ WF_vars(LivePoll)
    /\ WF_vars(Sleep)

(* ------------------------- the uploader's steps ------------------------ *)

\* upload_file requesting the upload session before it looks at the path.
UploadFileInitFirst(path, size, cb) ==
    /\ upc = "idle"
    /\ file_path' = path
    /\ progress_callback' = cb
    /\ requests' = Append(requests, Request("init", 0))
    /\ IF path \notin ExistingPaths
       THEN /\ upload_outcome' = FileNotFoundError(path)
            /\ upc' = "done"
            /\ UNCHANGED session
       ELSE /\ session' = UploadSession(path, size)
            /\ upc' = "init"
            /\ UNCHANGED upload_outcome
    /\ UNCHANGED <<inflight, observed, progress, polling, threads>>

\* upload_file, step 1: the path must name an existing file, or the call
\* raises FileNotFoundError before any request; otherwise the session starts
\* with the size of the file.
UploadFile(path, size, cb) ==
    /\ upc = "idle"
    /\ file_path' = path
    /\ progress_callback' = cb
    /\ IF path \notin ExistingPaths
       THEN /\ upload_outcome' = FileNotFoundError(path)
            /\ upc' = "done"
            /\ UNCHANGED session
       ELSE /\ session' = UploadSession(path, size)
            /\ upc' = "init"
            /\ UNCHANGED upload_outcome
    /\ UNCHANGED <<requests, inflight, observed, progress, polling, threads>>

\* _init_upload, step 2: request the session; the service's part size and
\* part count are taken as declared.
InitUpload(resp) ==
    /\ upc = "init"
    /\ resp \in InitResponses(session.totalBytes)
    /\ UNCHANGED file_path
    /\ requests' = Append(requests, Request("init", 0))
    /\ IF resp.ok
       THEN /\ session' = [session EXCEPT !.partSize = resp.partSize,
                                          !.totalParts = resp.totalParts]
            /\ upc' = "loop"
            /\ UNCHANGED upload_outcome
       ELSE /\ upload_outcome' = UploadError("Failed to initialize upload", 0)
            /\ upc' = "done"
            /\ UNCHANGED session
    /\ UNCHANGED <<progress_callback, inflight, observed, progress, polling,
                   threads>>

\* _get_upload_url, step 3a: the next part's upload target.
GetUploadUrl(ok) ==
    /\ upc = "loop"
    /\ UNCHANGED file_path
    /\ session.currentPart < session.totalParts
    /\ session' = [session EXCEPT !.currentPart = @ + 1]
    /\ requests' = Append(requests, Request("url", session'.currentPart))
    /\ IF ok
       THEN /\ upc' = "transfer"
            /\ UNCHANGED upload_outcome
       ELSE /\ upload_outcome' =
                   UploadError("Failed to get upload URL", session'.currentPart)
            /\ upc' = "done"
    /\ UNCHANGED <<progress_callback, inflight, observed, progress, polling,
                   threads>>

\* The transfer of a part sent off without waiting for its response.
UploadPartStartNoWait ==
    /\ upc = "transfer"
    /\ UNCHANGED file_path
    /\ requests' = Append(requests, Request("put", session.currentPart))
    /\ inflight' = inflight \cup {session.currentPart}
    /\ upc' = "loop"
    /\ UNCHANGED <<session, progress_callback, observed, upload_outcome,
                   progress, polling, threads>>

\* _upload_part, steps 3b-3c: the part's bytes are read and sent to the target.
UploadPartStart ==
    /\ upc = "transfer"
    /\ UNCHANGED file_path
    /\ requests' = Append(requests, Request("put", session.currentPart))
    /\ inflight' = inflight \cup {session.currentPart}
    /\ upc' = "inflight"
    /\ UNCHANGED <<session, progress_callback, observed, upload_outcome,
                   progress, polling, threads>>

\* Step 3d, first half: the transfer succeeded; the part is acknowledged and
\* uploadedBytes grows by its length.
UploadPartAck ==
    /\ upc = "inflight"
    /\ UNCHANGED file_path
    /\ inflight' = inflight \ {session.currentPart}
    /\ session' =
           [session EXCEPT
               !.uploadedBytes = @ + PartLength(session, session.currentPart),
               !.acked = Append(@, session.currentPart)]
    /\ upc' = IF progress_callback.supplied THEN "report" ELSE "loop"
    /\ UNCHANGED <<progress_callback, requests, observed, upload_outcome,
                   progress, polling, threads>>

\* A failed transfer sent again.
UploadPartFailRetries ==
    /\ upc = "inflight"
    /\ UNCHANGED file_path
    /\ inflight' = inflight \ {session.currentPart}
    /\ upc' = "transfer"
    /\ UNCHANGED <<session, progress_callback, requests, observed,
                   upload_outcome, progress, polling, threads>>

\* Step 3c: the transfer failed at transport level; the whole upload fails
\* with an APIError that carries the part index.
UploadPartFail ==
    /\ upc = "inflight"
    /\ UNCHANGED file_path
    /\ inflight' = inflight \ {session.currentPart}
    /\ upload_outcome' = UploadError("Failed to upload part", session.currentPart)
    /\ upc' = "done"
    /\ UNCHANGED <<session, progress_callback, requests, observed, progress,
                   polling, threads>>

\* The callback's exception caught and dropped.
ProgressCallbackSwallows ==
    /\ upc = "report"
    /\ UNCHANGED file_path
    /\ observed' = Append(observed, Snapshot(session))
    /\ upc' = "loop"
    /\ UNCHANGED <<session, progress_callback, requests, inflight,
                   upload_outcome, progress, polling, threads>>

\* Step 3d, second half: the callback is given a fresh snapshot; what it
\* raises leaves upload_file.
ProgressCallback ==
    /\ upc = "report"
    /\ UNCHANGED file_path
    /\ observed' = Append(observed, Snapshot(session))
    /\ IF progress_callback.raisesAt = Len(observed')
       THEN /\ upload_outcome' = CallbackError
            /\ upc' = "done"
       ELSE /\ upc' = "loop"
            /\ UNCHANGED upload_outcome
    /\ UNCHANGED <<session, progress_callback, requests, inflight, progress,
                   polling, threads>>

\* Step 4: every part is acknowledged; the cache locator is returned.
Finalize ==
    /\ upc = "loop"
    /\ UNCHANGED file_path
    /\ session.currentPart >= session.totalParts
    /\ upload_outcome' = Uploaded(CacheLocator(session.filePath))
    /\ upc' = "done"
    /\ UNCHANGED <<session, progress_callback, requests, inflight, observed,
                   progress, polling, threads>>

\* A caller builds an UploadProgress and reads its percentage.
ReadPercentage(uploaded_bytes, total_bytes, current_part, total_parts) ==
    /\ upc = "idle"
    /\ UNCHANGED file_path
    /\ LET p == UploadProgress(uploaded_bytes, total_bytes, current_part,
                               total_parts)
       IN  progress' = [snapshot |-> p, percentage |-> Percentage(p)]
    /\ upc' = "read"
    /\ UNCHANGED <<session, progress_callback, requests, inflight, observed,
                   upload_outcome, polling, threads>>

UploadNext ==
    \/ \E path \in Paths, size \in FileSizes, cb \in Callbacks :
          UploadFile(path, size, cb)
    \/ \E resp \in AllInitResponses : InitUpload(resp)
    \/ \E ok \in BOOLEAN : GetUploadUrl(ok)
    \/ UploadPartStart
    \/ UploadPartAck
    \/ UploadPartFail
    \/ ProgressCallback
    \/ Finalize
    \/ \E u \in ProgressBytes, t \in ProgressBytes, c \in 1..2 :
          ReadPercentage(u, t, c, 2)

UploadSpec == Init /\ [][UploadNext]_vars

(* --------------------- the concurrent pollers' steps ------------------- *)

\* client.py 101-132: thread i calls wait_for_completion.
ThreadWait(i, a) ==
    /\ pollers[i].pc = "idle"
    /\ pollers' =
           [pollers EXCEPT ![i] =
               [@ EXCEPT !.pc = "while",
                         !.args = a,
                         !.task_id = a.task_id,
                         !.start_time = now,
                         !.timeout_sec = MsToSec(a.max_wait_ms),
                         !.factor = ResolveFactor(a.backoff_factor),
                         !.current_interval_sec = MsToSec(a.check_interval_ms),
                         !.max_interval_sec = MsToSec(a.max_check_interval_ms)]]
    /\ UNCHANGED <<client, polling, uploader>>

\* client.py 134, 153: thread i finds its deadline passed.
ThreadTimeout(i) ==
    /\ pollers[i].pc = "while"
    /\ ~WithinDeadline(now, pollers[i].start_time, pollers[i].timeout_sec)
    /\ pollers' =
           [pollers EXCEPT ![i] =
               [@ EXCEPT !.pc = "done",
                         !.outcome = TimeoutError("Conversion timeout")]]
    /\ UNCHANGED <<client, polling, uploader>>

\* client.py 134-146: thread i queries the status and branches on it.
ThreadPoll(i, resp) ==
    /\ pollers[i].pc = "while"
    /\ WithinDeadline(now, pollers[i].start_time, pollers[i].timeout_sec)
    /\ LET got == GetConversionResult(resp)
           out == IF got.raised THEN got.error ELSE HandleResult(resp)
       IN  pollers' =
               [pollers EXCEPT ![i] =
                   [@ EXCEPT !.polled = Append(@, resp),
                             !.outcome = out,
                             !.pc = IF out = NoOutcome THEN "sleep"
                                    ELSE "done"]]
    /\ UNCHANGED <<client, polling, uploader>>

\* client.py 148: thread i calls time.sleep with its current interval.
ThreadSleep(i) ==
    /\ pollers[i].pc = "sleep"
    /\ pollers' =
           [pollers EXCEPT ![i] =
               [@ EXCEPT !.sleeps = Append(@, pollers[i].current_interval_sec),
                         !.wake = RAdd(now, pollers[i].current_interval_sec),
                         !.pc = "asleep"]]
    /\ UNCHANGED <<client, polling, uploader>>

\* The interval kept in one place for every thread of the client: the
\* growth after a suspension reaches every frame.
ThreadWakeSharedInterval(i) ==
    /\ pollers[i].pc = "asleep"
    /\ RLeq(pollers[i].wake, now)
    /\ LET grown == NextInterval(pollers[i].current_interval_sec,
                                 pollers[i].factor,
                                 pollers[i].max_interval_sec)
       IN  pollers' =
               [j \in Pollers |->
                   [pollers[j] EXCEPT
                       !.current_interval_sec = grown,
                       !.pc = IF j = i THEN "while" ELSE @]]
    /\ UNCHANGED <<client, polling, uploader>>

\* client.py 148-151: time.sleep returns in thread i, which grows its
\* interval and goes back to the loop condition.
ThreadWake(i) ==
    /\ pollers[i].pc = "asleep"
    /\ RLeq(pollers[i].wake, now)
    /\ pollers' =
           [pollers EXCEPT ![i] =
               [@ EXCEPT !.current_interval_sec =
                             NextInterval(pollers[i].current_interval_sec,
                                          pollers[i].factor,
                                          pollers[i].max_interval_sec),
                         !.pc = "while"]]
    /\ UNCHANGED <<client, polling, uploader>>

\* Time passes until the next suspension of some thread is over.
Tick ==
    /\ \E i \in Pollers : pollers[i].pc = "asleep" /\ RLt(now, pollers[i].wake)
    /\ LET due == {pollers[i].wake : i \in {j \in Pollers :
                       pollers[j].pc = "asleep" /\ RLt(now, pollers[j].wake)}}
       IN  now' = CHOOSE w \in due : \A v \in due : RLeq(w, v)
    /\ UNCHANGED <<client, pollers, single, uploader>>

ThreadsNext ==
    \/ \E i \in Pollers, a \in ThreadArgs : ThreadWait(i, a)
    \/ \E i \in Pollers : ThreadTimeout(i)
    \/ \E i \in Pollers, resp \in ThreadResponses : ThreadPoll(i, resp)
    \/ \E i \in Pollers : ThreadSleep(i)
    \/ \E i \in Pollers : ThreadWake(i)
    \/ Tick

ThreadsSpec == Init /\ [][ThreadsNext]_vars

(* ------------------------- the poller's properties --------------------- *)

\* A response whose body wait_for_completion got to look at.
Parsed(r) == r.json /\ r.ok
HasPayload(r) == r.hasData /\ \E p \in r.data : p[1] = "downloadURL"
ObservedState(r, st) == Parsed(r) /\ r.hasState /\ r.state = st
Terminal(r) == ObservedState(r, "completed") \/ ObservedState(r, "failed")

InitialIntervalSec == Rat(args.check_interval_ms, 1000)
MaxIntervalSec == Rat(args.max_check_interval_ms, 1000)
Started == pc # "idle"

\* C1: the first suspension of a call lasts check_interval_ms / 1000 seconds
\* and every later one lasts min(previous suspension * factor, maximum
\* interval), whatever non-terminal responses were received.
C1_IntervalGrowth ==
    \A i \in 1..Len(sleeps) :
        sleeps[i] = IF i = 1
                    THEN InitialIntervalSec
                    ELSE RMin(RMul(sleeps[i - 1], factor), MaxIntervalSec)

\* A call that slept three times, growing once freely and then clamped.
C1_Witness ==
    /\ Len(sleeps) >= 3
    /\ sleeps[2] = RMul(sleeps[1], factor)
    /\ sleeps[2] # sleeps[1]
    /\ sleeps[3] = MaxIntervalSec
    /\ sleeps[3] # RMul(sleeps[2], factor)

Processing == Body("processing", FALSE, {}, FALSE, "")
CompletedAt(u) == Body("completed", TRUE, {<<"downloadURL", u>>}, FALSE, "")

P1Statuses ==
    <<Processing, Processing, Processing, Processing,
      CompletedAt("http://example.com/a.md")>>
P1Sleeps == <<Rat(1, 1), Rat(2, 1), Rat(4, 1), Rat(5, 1)>>
P1Policy ==
    /\ Started
    /\ args.check_interval_ms = 1000
    /\ args.max_check_interval_ms = 5000
    /\ args.backoff_factor = Number(2, 1)

\* C2: with initial interval 1 s, factor 2 and maximum 5 s, a call that is
\* answered 'processing' four times and then 'completed' suspends for
\* 1, 2, 4, 5 seconds in that order, once after each 'processing', and
\* returns on the fifth response without a fifth suspension.
C2_ExponentialRun ==
    (/\ P1Policy
     /\ Len(polled) <= Len(P1Statuses)
     /\ polled = SubSeq(P1Statuses, 1, Len(polled)))
        => /\ Len(sleeps) <= 4
           /\ sleeps = SubSeq(P1Sleeps, 1, Len(sleeps))
           /\ Len(sleeps) \in {Len(polled) - 1, Len(polled)}
           /\ pc = "sleep" => Len(sleeps) = Len(polled) - 1
           /\ pc = "while" => Len(sleeps) = Len(polled)
           /\ Len(polled) = 5 =>
                  /\ pc = "done"
                  /\ sleeps = P1Sleeps
                  /\ outcome = Returned("http://example.com/a.md")

C2_Witness ==
    /\ P1Policy
    /\ polled = P1Statuses
    /\ sleeps = P1Sleeps
    /\ outcome.kind = "return"

\* C3: with a growth factor of 1.0 every suspension of a call lasts the
\* initial interval; an initial interval of 3 s answered 'processing' twice
\* and then 'completed' gives the suspensions 3, 3.
C3_FixedConstant ==
    (Started /\ factor = Rat(1, 1)) =>
        /\ \A i \in 1..Len(sleeps) : sleeps[i] = InitialIntervalSec
        /\ (/\ args.check_interval_ms = 3000
            /\ pc = "done"
            /\ polled = <<Processing, Processing,
                          CompletedAt("http://example.com/a.md")>>)
               => sleeps = <<Rat(3, 1), Rat(3, 1)>>

\* C4: wait_for_completion called with a task id and PollingStrategy.FIXED,
\* every interval argument at its default, suspends for 3 seconds after
\* each 'processing' response.
C4_FixedDefaultsSleepThree ==
    (/\ Started
     /\ entry = "wait_for_completion"
     /\ args.max_wait_ms = DefaultMaxWaitMs
     /\ args.check_interval_ms = DefaultCheckIntervalMs
     /\ args.max_check_interval_ms = DefaultMaxCheckIntervalMs
     /\ args.backoff_factor = Strategy("FIXED"))
        => \A i \in 1..Len(sleeps) : sleeps[i] = Rat(3, 1)

\* C5: no suspension of a call, the first included, lasts longer than
\* max_check_interval_ms.
C5_NeverAboveMaxInterval ==
    \A i \in 1..Len(sleeps) : RLeq(sleeps[i], MaxIntervalSec)

\* C6: with a growth factor above 1.0 the suspensions of a call never
\* shrink, and after one that lasts the maximum interval every later one
\* lasts the maximum interval too.
C6_MonotoneUntilClamped ==
    (Started /\ RLt(Rat(1, 1), factor)) =>
        \A i \in 1..(Len(sleeps) - 1) :
            /\ RLeq(sleeps[i], sleeps[i + 1])
            /\ sleeps[i] = MaxIntervalSec => sleeps[i + 1] = MaxIntervalSec

TerminalObserved == \E i \in 1..Len(polled) : Terminal(polled[i])

\* C7: from the moment a call has received a 'completed' or 'failed'
\* status it issues no status query and performs no suspension: the call
\* is over, with its outcome set.
C7_TerminalShortCircuit ==
    [][TerminalObserved =>
          /\ polled' = polled
          /\ sleeps' = sleeps
          /\ pc = "done" /\ pc' = "done"
          /\ outcome' = outcome]_vars

C7_Witness ==
    /\ TerminalObserved
    /\ pc = "done"
    /\ Len(sleeps) >= 2
    /\ outcome.kind # "none"

\* C8: a 'completed' response that carries data.downloadURL is the last
\* response of its call and the first 'completed' one, and the call
\* returns exactly that downloadURL.
C8_ReturnsLocator ==
    \A i \in 1..Len(polled) :
        (ObservedState(polled[i], "completed") /\ HasPayload(polled[i])) =>
            /\ i = Len(polled)
            /\ pc = "done"
            /\ \A u \in Urls :
                   <<"downloadURL", u>> \in polled[i].data
                       => outcome = Returned(u)
            /\ outcome.kind = "return"
            /\ \A j \in 1..(i - 1) : ~ObservedState(polled[j], "completed")

C8_Witness ==
    /\ pc = "done"
    /\ Len(polled) >= 3
    /\ polled[Len(polled)] = CompletedAt("http://example.com/b.md")
    /\ outcome = Returned("http://example.com/b.md")

CompletedWithoutPayload(r) ==
    ObservedState(r, "completed") /\ ~(HasPayload(r) /\ r.data # {})

JobFailureError == HandleResult(Body("failed", FALSE, {}, TRUE, "bad pdf"))
TransportFailureErrors ==
    {GetConversionResult(Response(FALSE, TRUE, "", FALSE, {}, FALSE, "")).error,
     GetConversionResult(Response(TRUE, FALSE, "", FALSE, {}, FALSE, "")).error}

\* C9 as stated: a 'completed' response without its result payload ends the
\* call with an error whose kind differs from the kind raised for a reported
\* job failure and from the kind raised for a failed status query.
C9_DistinctErrorKind ==
    \A i \in 1..Len(polled) :
        CompletedWithoutPayload(polled[i]) =>
            /\ i = Len(polled)
            /\ pc = "done"
            /\ outcome.kind \notin {"none", "return"}
            /\ outcome.kind # JobFailureError.kind
            /\ \A e \in TransportFailureErrors : outcome.kind # e.kind

\* C9: a 'completed' response without data, with empty data or with data
\* lacking downloadURL ends the call at once with an APIError, the kind also
\* raised for a reported job failure and for a failed status query, told
\* apart from them by its message only; the call does not poll again.
C9_MissingPayloadRaisesAPIError ==
    \A i \in 1..Len(polled) :
        CompletedWithoutPayload(polled[i]) =>
            /\ i = Len(polled)
            /\ pc = "done"
            /\ outcome.kind = "APIError"
            /\ outcome.kind = JobFailureError.kind
            /\ \A e \in TransportFailureErrors :
                   outcome.kind = e.kind /\ outcome.value # e.value
            /\ outcome.value =
                   "Task completed but downloadURL missing in response"
            /\ outcome.value # JobFailureError.value

C9_Witness ==
    /\ pc = "done"
    /\ Len(polled) >= 2
    /\ Len(sleeps) = Len(polled) - 1
    /\ polled[Len(polled)] =
           Body("completed", TRUE, {<<"pages", "3">>}, FALSE, "")
    /\ outcome.kind = "APIError"

\* C10: a 'failed' response ends the call at once with an error carrying
\* the reason that response reports; it is the last response of the call,
\* no suspension follows it, and no job submission is issued on its account.
C10_FailedRaisesReason ==
    \A i \in 1..Len(polled) :
        ObservedState(polled[i], "failed") =>
            /\ i = Len(polled)
            /\ pc = "done"
            /\ Len(sleeps) = i - 1
            /\ outcome.kind = "APIError"
            /\ outcome.value = "Conversion failed"
            /\ polled[i].hasError => outcome.detail = polled[i].error
            /\ submissions = (IF entry = "convert" THEN 1 ELSE 0)

C10_Witness ==
    /\ pc = "done"
    /\ entry = "convert"
    /\ submissions = 1
    /\ Len(polled) >= 2
    /\ polled[Len(polled)] = Body("failed", FALSE, {}, TRUE, "ocr failed")
    /\ outcome = APIError("Conversion failed", "ocr failed")

(* ----------------------------- the deadline ---------------------------- *)

Elapsed == RSub(now, start_time)
DeadlinePassed == ~RLt(Elapsed, Rat(args.max_wait_ms, 1000))
AllNonTerminal == \A i \in 1..Len(polled) : Parsed(polled[i]) /\ ~Terminal(polled[i])

\* C11: a status query is issued only at a moment when the time elapsed
\* since the start of the call is still below max_wait_ms; and when the loop
\* comes back to its condition with that time used up, every status so far
\* being non-terminal, the call raises TimeoutError and issues no query.
C11_TimeoutNoLatePoll ==
    [][/\ polled' # polled => (Started /\ ~DeadlinePassed)
       /\ (pc = "while" /\ DeadlinePassed) =>
              /\ AllNonTerminal
              /\ outcome' = TimeoutError("Conversion timeout")
              /\ pc' = "done"
              /\ polled' = polled
              /\ sleeps' = sleeps]_vars

\* A call that timed out after three non-terminal statuses.
C11_Witness ==
    /\ pc = "done"
    /\ outcome.kind = "TimeoutError"
    /\ args.max_wait_ms = 4000
    /\ Len(polled) = 3
    /\ AllNonTerminal
    /\ DeadlinePassed

\* C12: a call ends in TimeoutError only if it never received a 'completed'
\* or a 'failed' status; a call that received 'failed' ends in APIError.
C12_TimeoutDistinctFromFailure ==
    /\ outcome.kind = "TimeoutError" =>
           /\ ~TerminalObserved
           /\ DeadlinePassed
    /\ \A i \in 1..Len(polled) :
           ObservedState(polled[i], "failed") =>
               /\ outcome.kind # "TimeoutError"
               /\ outcome.kind # TimeoutError("Conversion timeout").kind

\* A call that slept past its deadline and timed out on queued statuses.
C12_Witness ==
    /\ pc = "done"
    /\ outcome = TimeoutError("Conversion timeout")
    /\ Len(polled) >= 1
    /\ Len(sleeps) = Len(polled)
    /\ \A i \in 1..Len(polled) : ObservedState(polled[i], "queued")

MaxWaitSec == Rat(args.max_wait_ms, 1000)
LongestLatency == CHOOSE l \in Latencies : \A m \in Latencies : RLeq(m, l)
\* What follows the last deadline check that passed: one status query and,
\* when the call slept after it, one suspension.
LastStretch ==
    IF Len(sleeps) >= 1 /\ Len(sleeps) = Len(polled)
    THEN RAdd(LongestLatency, sleeps[Len(sleeps)])
    ELSE LongestLatency

InLoop == pc \in {"while", "sleep"}

\* C14: once a call has started, no status response and no suspension
\* changes the start time or the timeout its deadline check uses.
C14_DeadlineFixed ==
    [][InLoop =>
          /\ start_time' = start_time
          /\ timeout_sec' = timeout_sec
          /\ timeout_sec = MaxWaitSec]_vars

\* A call whose clock has moved on over several polls, its start unchanged.
C14_Witness ==
    /\ pc = "while"
    /\ Len(polled) >= 3
    /\ Len(sleeps) >= 3
    /\ RLt(start_time, now)
    /\ timeout_sec = MaxWaitSec

(* ------------------------- the shape of the loop ----------------------- *)

NonTerminal(r) == Parsed(r) /\ ~Terminal(r)
NonTerminalCount ==
    Cardinality({i \in 1..Len(polled) : NonTerminal(polled[i])})

\* C15: queries and suspensions alternate, a query first: there are never
\* more suspensions than queries, the i-th suspension follows the i-th
\* response, which was non-terminal, the next query waits for that
\* suspension to end, and outside a pending suspension the number of
\* suspensions equals the number of non-terminal responses.
C15_QueriesAndSleepsAlternate ==
    /\ Len(sleeps) <= Len(polled)
    /\ Len(polled) - Len(sleeps) \in {0, 1}
    /\ \A i \in 1..Len(sleeps) : NonTerminal(polled[i])
    /\ pc = "sleep" =>
           /\ Len(sleeps) = Len(polled) - 1
           /\ NonTerminal(polled[Len(polled)])
           /\ Len(sleeps) = NonTerminalCount - 1
    /\ pc = "while" => Len(sleeps) = Len(polled)
    /\ pc \in {"idle", "while", "done"} => Len(sleeps) = NonTerminalCount

\* A finished call with three non-terminal responses and three suspensions
\* before its last response.
C15_Witness ==
    /\ pc = "done"
    /\ Len(polled) = 4
    /\ Len(sleeps) = 3
    /\ NonTerminalCount = 3
    /\ Terminal(polled[4])

\* C16: a status query that fails, by a body that is not JSON or by a
\* non-success HTTP status, ends the call with the APIError of the query:
\* it is the last query of the call and no suspension follows it.
C16_QueryFailureEndsCall ==
    \A i \in 1..Len(polled) :
        ~Parsed(polled[i]) =>
            /\ i = Len(polled)
            /\ pc = "done"
            /\ Len(sleeps) = i - 1
            /\ outcome.kind = "APIError"
            /\ outcome.value =
                   (IF polled[i].json THEN "HTTP" ELSE "Invalid JSON response")

\* A call ended by an HTTP error on its third query.
C16_Witness ==
    /\ pc = "done"
    /\ Len(polled) = 3
    /\ Len(sleeps) = 2
    /\ polled[3].json /\ ~polled[3].ok
    /\ outcome = APIError("HTTP", "")

\* C17 as stated: a parsed status that is neither 'processing' nor a
\* 'completed' with its payload ends the call.
C17_OnlyProcessingLoops ==
    \A i \in 1..Len(polled) :
        (/\ Parsed(polled[i])
         /\ ~ObservedState(polled[i], "processing")
         /\ ~(ObservedState(polled[i], "completed") /\ HasPayload(polled[i])))
            => /\ i = Len(polled)
               /\ pc = "done"

\* C17: only 'completed' and 'failed' end the loop: a parsed status with
\* any other state, 'processing' or not, is followed by one suspension and
\* the call goes on (to the next deadline check), while a 'completed' or
\* 'failed' status is the last response of its call.
C17_OnlyTerminalEndsLoop ==
    \A i \in 1..Len(polled) :
        Parsed(polled[i]) =>
            /\ Terminal(polled[i]) => (i = Len(polled) /\ pc = "done")
            /\ ~Terminal(polled[i]) =>
                   /\ \/ i < Len(polled)
                      \/ pc \in {"sleep", "while"}
                      \/ outcome.kind = "TimeoutError"
                   /\ (i < Len(polled) \/ pc # "sleep") => Len(sleeps) >= i

\* A call that slept and polled again after a status of unknown state.
C17_Witness ==
    /\ Len(polled) >= 2
    /\ ObservedState(polled[1], "queued")
    /\ Len(sleeps) >= 1
    /\ sleeps[1] = InitialIntervalSec

(* ------------------------------ the policy ----------------------------- *)

\* C18: a call that suspends runs with an initial interval no longer than
\* its maximum interval and with a growth factor of at least 1.0.
C18_PolicyInvariant ==
    Len(sleeps) >= 1 =>
        /\ RLeq(InitialIntervalSec, MaxIntervalSec)
        /\ RLeq(Rat(1, 1), factor)

(* ----------------------------- termination ----------------------------- *)

\* C19: every call that has started eventually ends, by a return or a
\* raise, whatever statuses it is given, 'processing' without end included.
C19_EventuallyEnds == Started ~> (pc = "done" /\ outcome.kind # "none")

\* A call given nothing but 'processing' that ended, by its deadline.
C19_Witness ==
    /\ pc = "done"
    /\ outcome.kind = "TimeoutError"
    /\ Len(polled) >= 2
    /\ \A i \in 1..Len(polled) : polled[i] = Processing

(* ------------------------------- convert ------------------------------- *)

\* What a run of wait_for_completion that received the statuses in polled
\* ends with.
WaitOutcome ==
    IF polled # << >> /\ ~Parsed(polled[Len(polled)])
    THEN APIError(IF polled[Len(polled)].json
                  THEN "HTTP" ELSE "Invalid JSON response", "")
    ELSE IF polled # << >> /\ ObservedState(polled[Len(polled)], "failed")
    THEN APIError("Conversion failed",
                  IF polled[Len(polled)].hasError
                  THEN polled[Len(polled)].error ELSE "Unknown error")
    ELSE IF polled # << >> /\ ObservedState(polled[Len(polled)], "completed")
    THEN IF HasPayload(polled[Len(polled)])
         THEN Returned((CHOOSE p \in polled[Len(polled)].data :
                            p[1] = "downloadURL")[2])
         ELSE APIError("Task completed but downloadURL missing in response",
                       "")
    ELSE TimeoutError("Conversion timeout")

Submitted == entry = "convert" /\ task_id \in SessionIds

\* C20: convert with wait=False ends with the submission: it returns the
\* task id the submission produced and issues no status query and no
\* suspension; convert with wait=True polls that same task id with the
\* polling arguments it was given and ends with what that polling ends
\* with, a downloadURL or an error.
C20_ConvertWaitOrHandle ==
    /\ (entry = "convert" /\ ~wait) =>
           /\ pc = "done"
           /\ polled = << >>
           /\ sleeps = << >>
           /\ now = Rat(0, 1)
           /\ Submitted => outcome = Returned(task_id)
           /\ ~Submitted => outcome.kind \in {"APIError", "ValueError"}
    /\ (Submitted /\ wait) =>
           /\ submissions = 1
           /\ start_time = Rat(0, 1)
           /\ timeout_sec = Rat(args.max_wait_ms, 1000)
           /\ factor = ResolveFactor(args.backoff_factor)
           /\ max_interval_sec = MaxIntervalSec
           /\ sleeps # << >> => sleeps[1] = InitialIntervalSec
           /\ pc = "done" => outcome = WaitOutcome
           /\ pc # "done" => outcome = NoOutcome

\* convert(wait=True) that returned the downloadURL of its third status.
C20_Witness ==
    /\ Submitted
    /\ wait
    /\ pc = "done"
    /\ Len(polled) = 3
    /\ outcome = Returned("http://example.com/b.md")
    /\ task_id = "session-1"

(* ------------------------ the uploader's properties -------------------- *)

UploadStarted == upc \notin {"idle", "read"}

\* C21: upload_file called with a path that names no existing file raises
\* FileNotFoundError and has issued no Transport request.
C21_MissingFileNoRequest ==
    (UploadStarted /\ file_path \notin ExistingPaths) =>
        /\ upc = "done"
        /\ upload_outcome = FileNotFoundError(file_path)
        /\ requests = << >>

\* A call on nonexistent_file.pdf that raised.
C21_Witness ==
    /\ upc = "done"
    /\ file_path = "nonexistent_file.pdf"
    /\ upload_outcome.kind = "FileNotFoundError"

UploadedBytesAt(i) == observed[i].uploaded_bytes

\* C22: the uploadedBytes values the progress callback observes during one
\* upload_file call are strictly increasing; once the callback has seen
\* every part, the last value equals totalBytes, and an upload that returns
\* its locator has shown the callback every part.
C22_ProgressIncreasing ==
    /\ \A i \in 1..Len(observed) :
          /\ i > 1 => UploadedBytesAt(i - 1) < UploadedBytesAt(i)
          /\ observed[i].total_bytes = session.totalBytes
    /\ (observed # << >> /\ Len(observed) = session.totalParts) =>
          UploadedBytesAt(Len(observed)) = session.totalBytes
    /\ (upload_outcome.kind = "return" /\ progress_callback.supplied) =>
          Len(observed) = session.totalParts

\* An upload in three parts, the last one shorter than the part size, that
\* returned its locator.
C22_Witness ==
    /\ upload_outcome.kind = "return"
    /\ Len(observed) = 3
    /\ UploadedBytesAt(3) - UploadedBytesAt(2) < session.partSize
    /\ UploadedBytesAt(3) = session.totalBytes

PutsIssued == SelectSeq(requests, LAMBDA r : r.op = "put")

\* C23: during one upload_file call the parts are transferred one at a time
\* in the order 1, 2, ...: the k-th transfer is of part k, it starts only
\* when parts 1..k-1 are acknowledged, currentPart never decreases and grows
\* in steps of one, and at most one part is in flight.
C23_PartsSequential ==
    [][/\ Cardinality(inflight') <= 1
       /\ session'.currentPart \in {session.currentPart, session.currentPart + 1}
       /\ session'.currentPart <= session'.totalParts
       /\ \A k \in 1..Len(PutsIssued') : PutsIssued'[k].part = k
       /\ \A k \in 1..Len(session'.acked) : session'.acked[k] = k
       /\ Len(PutsIssued') > Len(PutsIssued) =>
             /\ inflight = {}
             /\ Len(session.acked) = Len(PutsIssued)]_vars

\* The third part is in flight after the first two were acknowledged.
C23_Witness ==
    /\ inflight = {3}
    /\ session.acked = <<1, 2>>
    /\ session.totalParts >= 3

\* The step in which the transfer in flight ends without an acknowledgement.
TransferFails ==
    /\ inflight # {}
    /\ inflight' = {}
    /\ session'.acked = session.acked

PartFailed ==
    /\ upload_outcome.kind = "APIError"
    /\ upload_outcome.value = "Failed to upload part"

\* C24: when the transfer of a part fails, upload_file ends at once with an
\* APIError that carries the index of that part; the failed part was sent
\* once, it is the last request of the call, no part after it was asked for
\* or sent, and no locator is returned.
C24_PartFailureAborts ==
    [][/\ TransferFails =>
             /\ upc' = "done"
             /\ upload_outcome' =
                    UploadError("Failed to upload part", session.currentPart)
             /\ requests' = requests
       /\ PartFailed' =>
             /\ upc' = "done"
             /\ requests'[Len(requests')] =
                    Request("put", upload_outcome'.part)
             /\ Len(PutsIssued') = upload_outcome'.part
             /\ \A k \in 1..Len(requests') :
                    requests'[k].part <= upload_outcome'.part
             /\ session'.acked = [k \in 1..(upload_outcome'.part - 1) |-> k]]_vars

\* The second part of an upload failed after the first was acknowledged.
C24_Witness ==
    /\ PartFailed
    /\ upload_outcome.part = 2
    /\ session.totalParts >= 3
    /\ session.acked = <<1>>

CallbackRaised ==
    /\ progress_callback.supplied
    /\ progress_callback.raisesAt > 0
    /\ Len(observed) >= progress_callback.raisesAt

\* C25: an exception raised by the progress callback leaves upload_file:
\* the call ends with that exception, the callback is not invoked again, no
\* part after the reported one is asked for or sent, and no locator is
\* returned.
C25_CallbackErrorPropagates ==
    CallbackRaised =>
        /\ upc = "done"
        /\ upload_outcome = CallbackError
        /\ Len(observed) = progress_callback.raisesAt
        /\ Len(PutsIssued) = progress_callback.raisesAt
        /\ requests[Len(requests)] = Request("put", progress_callback.raisesAt)

\* The callback raised on the first of at least three parts.
C25_Witness ==
    /\ CallbackRaised
    /\ progress_callback.raisesAt = 1
    /\ session.totalParts >= 3
    /\ upload_outcome.kind = "CallbackException"

(* -------------------- the properties of UploadProgress ----------------- *)

PercentageRead == upc = "read"
ValidProgress(p) == 0 <= p.uploaded_bytes /\ p.uploaded_bytes <= p.total_bytes
Complete(p) == p.uploaded_bytes = p.total_bytes
Hundred == Rat(100, 1)

C27_EmptyReportsZero ==
    (PercentageRead /\ progress.snapshot.total_bytes = 0) =>
        progress.percentage = Rat(0, 1)

\* The percentage of a snapshot of an empty file was read.
C27_Witness ==
    /\ PercentageRead
    /\ progress.snapshot.total_bytes = 0
    /\ progress.snapshot.uploaded_bytes = 0
    /\ progress.percentage = Rat(0, 1)

(* ------------------- the concurrent pollers' properties ---------------- *)

\* The first n suspensions of a call with arguments a that runs alone.
RECURSIVE SoloSleeps(_, _)
SoloSleeps(a, n) ==
    IF n = 0
    THEN << >>
    ELSE IF n = 1
    THEN <<Rat(a.check_interval_ms, 1000)>>
    ELSE LET before == SoloSleeps(a, n - 1) IN
         Append(before,
                RMin(RMul(before[n - 1], ResolveFactor(a.backoff_factor)),
                     Rat(a.max_check_interval_ms, 1000)))

\* The statuses that sent thread i on to a suspension.
KeptPolling(i) ==
    Len(SelectSeq(pollers[i].polled, LAMBDA r : HandleResult(r) = NoOutcome))

\* C28: wait_for_completion leaves the client and the task id as they were
\* and keeps its deadline, factor and interval in the frame of the call:
\* with two threads polling the same task through one client, in every
\* interleaving each thread's suspensions are those of its own policy run
\* alone, one per status that kept it polling.
C28_PollersIndependent ==
    /\ client = NewClient("test_key")
    /\ \A i \in Pollers :
          pollers[i].pc # "idle" =>
              /\ pollers[i].task_id = pollers[i].args.task_id
              /\ pollers[i].timeout_sec = Rat(pollers[i].args.max_wait_ms, 1000)
              /\ pollers[i].factor = ResolveFactor(pollers[i].args.backoff_factor)
              /\ pollers[i].sleeps =
                     SoloSleeps(pollers[i].args, Len(pollers[i].sleeps))
              /\ Len(pollers[i].sleeps) =
                     IF pollers[i].pc = "sleep" THEN KeptPolling(i) - 1
                     ELSE KeptPolling(i)

\* Two threads on the same task with different factors, each suspended
\* twice, the first of them back in its loop while the second still sleeps.
C28_Witness ==
    /\ pollers[1].task_id = pollers[2].task_id
    /\ pollers[1].sleeps = <<Rat(1, 1), Rat(3, 2)>>
    /\ pollers[2].sleeps = <<Rat(1, 1), Rat(2, 1)>>
    /\ pollers[1].pc = "while"
    /\ pollers[2].pc = "asleep"

(* --------------------- the first query and the submission -------------- *)

\* C29: the deadline is checked before the first status query too: a call
\* that has issued a query had a positive max_wait_ms, and a call with
\* max_wait_ms = 0 finds its deadline passed at once and raises
\* TimeoutError with no status query and no suspension.
C29_ZeroWaitNoQuery ==
    /\ (Started /\ polled # << >>) => args.max_wait_ms > 0
    /\ (Started /\ args.max_wait_ms = 0) =>
           /\ polled = << >>
           /\ sleeps = << >>
           /\ pc \in {"while", "done"}
           /\ pc = "while" => DeadlinePassed
           /\ pc = "done" => outcome = TimeoutError("Conversion timeout")

\* A call with max_wait_ms = 0 that has raised TimeoutError.
C29_Witness ==
    /\ entry = "wait_for_completion"
    /\ args.max_wait_ms = 0
    /\ pc = "done"
    /\ outcome.kind = "TimeoutError"
    /\ polled = << >>

SubmitFailed ==
    /\ entry = "convert"
    /\ submissions = 1
    /\ task_id \notin SessionIds

\* C30 as stated: every convert call issues exactly one submission, before
\* any status query; a failed submission ends the call with APIError and no
\* query or suspension; nothing the polling ends with adds a submission.
C30_ExactlyOneSubmission ==
    entry = "convert" =>
        /\ submissions = 1
        /\ SubmitFailed =>
               /\ pc = "done"
               /\ outcome.kind = "APIError"
               /\ polled = << >>
               /\ sleeps = << >>

\* C30, amended: convert issues at most one submission per call: none when
\* the format type is rejected, which ends the call with ValueError before
\* any request, and exactly one otherwise, issued before any status query;
\* a failed submission ends the call with APIError and no status query or
\* suspension; nothing the polling ends with adds a submission.
C30_OneSubmissionFirst ==
    /\ entry = "convert" =>
           /\ submissions =
                  IF args.format_type \in FormatTypeValues THEN 1 ELSE 0
           /\ submissions = 0 =>
                  /\ pc = "done"
                  /\ outcome.kind = "ValueError"
                  /\ polled = << >>
                  /\ sleeps = << >>
           /\ (polled # << >> \/ sleeps # << >>) => Submitted
           /\ SubmitFailed =>
                  /\ pc = "done"
                  /\ outcome.kind = "APIError"
                  /\ polled = << >>
                  /\ sleeps = << >>
    /\ entry = "wait_for_completion" => submissions = 0

\* convert(wait=True) whose polling ended in a failed job after two
\* suspensions, with the one submission it started with.
C30_Witness ==
    /\ Submitted
    /\ wait
    /\ submissions = 1
    /\ pc = "done"
    /\ Len(sleeps) = 2
    /\ ObservedState(polled[Len(polled)], "failed")

====
